---------------------------- MODULE Spec2Model ----------------------------
(***************************************************************************)
(* The realtime synchronisation hook useSupabaseRealtime                   *)
(* (frontend/src/hooks/useSupabaseRealtime.js) as a state machine.         *)
(*                                                                         *)
(* One hook instance: its React state (data, loading, connected), its two  *)
(* refs (channelRef, retryTimeout), the asynchronous setup() invocations   *)
(* that are in flight, the channels those invocations opened, and the      *)
(* timers set by the status callback.  JavaScript runs every callback to   *)
(* completion, so an action is the code between two awaits.                *)
(*                                                                         *)
(* A record is abstracted to its id and the value of the orderBy column    *)
(* after transformData; that value is a number or null.                    *)
(***************************************************************************)
EXTENDS Integers, Sequences, FiniteSets, TLC

\* ---- bounds of the model --------------------------------------------------
MaxRuns  == 3   \* setup() invocations over the life of the hook
MaxGen   == 2   \* effect generations (first mount + parameter changes)
MaxId    == 2   \* record ids 1..MaxId
MaxKey   == 1   \* orderBy column values 1..MaxKey
MaxLimit == 1   \* options.limit ranges over 0 (unset) .. MaxLimit
MaxLen   == 2   \* cap on |data| when no limit is set

\* bounds of the specification of the merge rule alone (MergeSpec)
MergeMaxId    == 3   \* record ids 1..MergeMaxId
MergeMaxKey   == 2   \* orderBy column values null, 0..MergeMaxKey
MergeMaxLimit == 2   \* options.limit ranges over 0 (unset) .. MergeMaxLimit
MergeMaxLen   == 3   \* cap on |data| when no limit is set

RunIds  == 1..MaxRuns
Gens    == 1..MaxGen

\* the values of the orderBy column: null, and the numbers
Null   == [isNull |-> TRUE, num |-> 0]
Num(n) == [isNull |-> FALSE, num |-> n]

Records == [id : 1..MaxId, key : { Num(k) : k \in 1..MaxKey }]
Orders  == {"none", "asc", "desc"}
Params  == [limit : 0..MaxLimit, order : Orders]

\* the option shapes the hook is called with: useSupabaseRealtime(view) with no
\* limit and no orderBy, and { orderBy: {..., ascending: false}, limit: L }
Requests == { [limit |-> 0, order |-> "none"] } \cup
            { [limit |-> l, order |-> "desc"] : l \in 1..MaxLimit }

VARIABLES
    data,          \* useState([])      : sequence of records
    loading,       \* useState(true)
    connected,     \* useState(false)
    channelRef,    \* useRef(null)      : 0, or the id of a channel
    retryTimeout,  \* useRef(null)      : 0, or the generation whose closure set the timer
    timers,        \* pending setTimeout callbacks, per generation of the closure
    mounted,       \* the effect is mounted (no cleanup without a following effect run)
    gen,           \* current effect generation
    params,        \* generation -> the options captured by that effect closure
    runs,          \* setup() invocations, in order of their start
    chan,          \* channel (named by the run that opened it) -> lifecycle
    chanStatus,    \* channel -> latest status passed to its subscribe callback
    last           \* the step that led to this state

vars == << data, loading, connected, channelRef, retryTimeout, timers, mounted,
           gen, params, runs, chan, chanStatus, last >>

NoParams == [limit |-> 0, order |-> "none"]

Step(op, st) == [op |-> op, st |-> st]

\* ---- the merge rule (lines 136-163) ---------------------------------------

\* the relational operators of line 157 convert null to the number 0
ToNumber(v) == IF v.isNull THEN 0 ELSE v.num

\* line 157: aVal > bVal ? 1 : aVal < bVal ? -1 : 0
Compare(aVal, bVal) ==
    IF ToNumber(aVal) > ToNumber(bVal) THEN 1
    ELSE IF ToNumber(aVal) < ToNumber(bVal) THEN -1 ELSE 0

\* a comparator that ignores parsedOrderBy.ascending (line 158)
SortCmpAscending(a, b, order) == Compare(a.key, b.key)

\* lines 154-159: the comparator handed to Array.prototype.sort
SortCmp(a, b, order) ==
    IF order = "asc" THEN Compare(a.key, b.key) ELSE 0 - Compare(a.key, b.key)

\* Array.prototype.sort is stable: insert x after the last element not above it
RECURSIVE InsertSorted(_, _, _)
InsertSorted(x, s, order) ==
    IF s = << >> THEN << x >>
    ELSE IF SortCmp(x, Head(s), order) < 0 THEN << x >> \o s
    ELSE << Head(s) >> \o InsertSorted(x, Tail(s), order)

RECURSIVE SortBy(_, _)
SortBy(s, order) ==
    IF s = << >> THEN << >>
    ELSE InsertSorted(s[Len(s)], SortBy(SubSeq(s, 1, Len(s) - 1), order), order)

\* updated.slice(0, stableLimit)
Slice(s, n) == SubSeq(s, 1, IF Len(s) < n THEN Len(s) ELSE n)

\* an UPDATE branch that replaces the first matching record only
MapReplaceFirst(s, rec) ==
    [i \in 1..Len(s) |->
        IF s[i].id = rec.id /\ \A j \in 1..(i - 1) : s[j].id # rec.id
          THEN rec ELSE s[i]]

\* lines 145-147
MapReplace(s, rec) == [i \in 1..Len(s) |-> IF s[i].id = rec.id THEN rec ELSE s[i]]

FilterOut(s, rec) == SelectSeq(s, LAMBDA r : r.id # rec.id)

\* an INSERT branch that appends the new record instead of prepending it
MergeInsertAppend(prev, rec, limit) ==
    IF limit # 0 THEN Slice(prev \o << rec >>, limit) ELSE prev \o << rec >>

\* lines 139-143
MergeInsert(prev, rec, limit) ==
    IF limit # 0 THEN Slice(<< rec >> \o prev, limit) ELSE << rec >> \o prev

\* an updater that sorts before it truncates an INSERT to the limit
MergeSortBeforeTruncate(prev, ev, p) ==
    LET updated == CASE ev.type = "INSERT" -> << ev.rec >> \o prev
                     [] ev.type = "UPDATE" -> MapReplace(prev, ev.rec)
                     [] ev.type = "DELETE" -> FilterOut(prev, ev.rec)
        sorted  == IF p.order # "none" THEN SortBy(updated, p.order) ELSE updated
    IN  IF ev.type = "INSERT" /\ p.limit # 0 THEN Slice(sorted, p.limit) ELSE sorted

\* lines 137-162: the updater given to setData
Merge(prev, ev, p) ==
    LET updated == CASE ev.type = "INSERT" -> MergeInsert(prev, ev.rec, p.limit)
                     [] ev.type = "UPDATE" -> MapReplace(prev, ev.rec)
                     [] ev.type = "DELETE" -> FilterOut(prev, ev.rec)
    IN  IF p.order # "none" THEN SortBy(updated, p.order) ELSE updated

Events == [type : {"INSERT", "UPDATE", "DELETE"}, rec : Records]

\* ---- the snapshot read (lines 71-92) --------------------------------------

\* ORDER BY of the database (line 82): null sorts above every number
ServerAbove(aVal, bVal) ==
    IF aVal.isNull THEN ~ bVal.isNull
    ELSE ~ bVal.isNull /\ aVal.num > bVal.num

IsSorted(s, order) ==
    \A i \in 1..(Len(s) - 1) :
        IF order = "asc" THEN ~ ServerAbove(s[i].key, s[i + 1].key)
                         ELSE ~ ServerAbove(s[i + 1].key, s[i].key)

DistinctIds(s) == \A i, j \in 1..Len(s) : s[i].id = s[j].id => i = j

SeqsUpTo(n) == UNION { [1..k -> Records] : k \in 0..n }

\* what the view can answer to select('*') [.order(...)] [.limit(L)]
Snapshots(p) ==
    { s \in SeqsUpTo(IF p.limit # 0 THEN p.limit ELSE MaxLen) :
        /\ DistinctIds(s)
        /\ p.order # "none" => IsSorted(s, p.order) }

\* line 92: the `data` of a response without error, an array of rows or null
NullResult == [isNull |-> TRUE, rows |-> << >>]
Rows(s)    == [isNull |-> FALSE, rows |-> s]

Results(p) == { NullResult } \cup { Rows(s) : s \in Snapshots(p) }

AllResults == { NullResult } \cup { Rows(s) : s \in SeqsUpTo(MaxLen) }

\* line 100: initial || []
Install(initial) == IF initial.isNull THEN << >> ELSE initial.rows

\* ---- helpers for the hook's refs and the channel registry ------------------

TimerCount(tm) == LET RECURSIVE Sum(_)
                      Sum(g) == IF g = 0 THEN 0 ELSE tm[g] + Sum(g - 1)
                  IN  Sum(MaxGen)

\* supabase.removeChannel(c): the channel starts leaving; the removal completes later
RemoveChannel(ch, c) == IF ch[c] = "open" THEN [ch EXCEPT ![c] = "leaving"] ELSE ch

\* clearTimeout(id)
ClearTimeout(tm, id) == IF id # 0 /\ tm[id] > 0 THEN [tm EXCEPT ![id] = @ - 1] ELSE tm

\* a retry that resubscribes without running setup() from its start
StartSetupRetrySkipsQuery(rs, g, isRetry) ==
    Append(rs, [gen |-> g, pc |-> IF isRetry THEN "done" ELSE "query", rem |-> 0,
                retry |-> isRetry])

\* line 200 / line 182: setup() runs synchronously up to `await query` (line 92)
StartSetup(rs, g, isRetry) ==
    Append(rs, [gen |-> g, pc |-> "query", rem |-> 0, retry |-> isRetry])

\* a callback that sets `connected` on SUBSCRIBED and never resets it
StatusConnectedOnly(s, conn) ==
    IF s = "SUBSCRIBED" THEN TRUE ELSE conn

\* lines 169-188: what the status callback does to `connected`
StatusConnected(s, conn) ==
    IF s = "SUBSCRIBED" THEN TRUE ELSE FALSE

\* the callback without the `if (!retryTimeout.current)` guard of line 178
StatusRetryNoGuard(s, rt, tm, g) ==
    IF s = "SUBSCRIBED"
      THEN [rt |-> 0, tm |-> ClearTimeout(tm, rt)]
    ELSE IF s \in {"CLOSED", "CHANNEL_ERROR"}
      THEN [rt |-> g, tm |-> [tm EXCEPT ![g] = @ + 1]]
    ELSE [rt |-> rt, tm |-> tm]

\* the callback without the clearTimeout of lines 171-174
StatusRetryNoClear(s, rt, tm, g) ==
    IF s \in {"CLOSED", "CHANNEL_ERROR"}
      THEN IF rt = 0 THEN [rt |-> g, tm |-> [tm EXCEPT ![g] = @ + 1]]
                     ELSE [rt |-> rt, tm |-> tm]
    ELSE [rt |-> rt, tm |-> tm]

\* the callback retrying on CLOSED only, not on CHANNEL_ERROR (line 175)
StatusRetryClosedOnly(s, rt, tm, g) ==
    IF s = "SUBSCRIBED"
      THEN [rt |-> 0, tm |-> ClearTimeout(tm, rt)]
    ELSE IF s = "CLOSED"
      THEN IF rt = 0 THEN [rt |-> g, tm |-> [tm EXCEPT ![g] = @ + 1]]
                     ELSE [rt |-> rt, tm |-> tm]
    ELSE [rt |-> rt, tm |-> tm]

\* lines 171-174, 178-184: what the status callback of a closure of generation g
\* does to retryTimeout.current and to the pending timers
StatusRetry(s, rt, tm, g) ==
    IF s = "SUBSCRIBED"
      THEN [rt |-> 0, tm |-> ClearTimeout(tm, rt)]
    ELSE IF s \in {"CLOSED", "CHANNEL_ERROR"}
      THEN IF rt = 0 THEN [rt |-> g, tm |-> [tm EXCEPT ![g] = @ + 1]]
                     ELSE [rt |-> rt, tm |-> tm]
    ELSE [rt |-> rt, tm |-> tm]

\* the cleanup without the `if (channelRef.current)` test of line 205:
\* supabase.removeChannel(null) fails
CleanupUnguarded(ch, ref, rt, tm) ==
    [ chan |-> IF ref # 0 THEN RemoveChannel(ch, ref) ELSE ch,
      channelRef |-> 0,
      retryTimeout |-> 0,
      timers |-> ClearTimeout(tm, rt),
      threw |-> ref = 0 ]

\* lines 202-214: the effect cleanup run on the registry ch, the refs ref and rt
\* and the pending timers tm: their new values, and whether a call failed
CleanupOf(ch, ref, rt, tm) ==
    [ chan |-> IF ref # 0 THEN RemoveChannel(ch, ref) ELSE ch,
      channelRef |-> 0,
      retryTimeout |-> 0,
      timers |-> ClearTimeout(tm, rt),
      threw |-> FALSE ]

\* the cleanup run in the current state
Cleanup == CleanupOf(chan, channelRef, retryTimeout, timers)

Statuses == {"SUBSCRIBED", "CLOSED", "CHANNEL_ERROR", "TIMED_OUT"}

\* setup() invocations whose `await supabase.removeChannel(...)` (line 105) has
\* resolved: their continuation is a microtask, which runs before the next task
\* (a response, a realtime message, a timer, an effect)
Resumable ==
    { r \in DOMAIN runs : runs[r].pc = "removing" /\ chan[runs[r].rem] = "removed" }

NoMicrotask == Resumable = {}

\* ---- initial state: first render, then the effect has called setup() -------

Init ==
    /\ data = << >>
    /\ loading = TRUE
    /\ connected = FALSE
    /\ channelRef = 0
    /\ retryTimeout = 0
    /\ timers = [g \in Gens |-> 0]
    /\ mounted = TRUE
    /\ gen = 1
    /\ \E p \in Requests : params = [g \in Gens |-> IF g = 1 THEN p ELSE NoParams]
    /\ runs = StartSetup(<< >>, 1, FALSE)
    /\ chan = [c \in RunIds |-> "none"]
    /\ chanStatus = [c \in RunIds |-> "none"]
    /\ last = Step("Init", "")

\* ---- setup() ---------------------------------------------------------------

\* lines 119-191: channel(...).on(...).subscribe(...); channelRef.current = channel
OpenChannel(r) ==
    /\ chan' = [chan EXCEPT ![r] = "open"]
    /\ chanStatus' = [chanStatus EXCEPT ![r] = "joining"]
    /\ channelRef' = r
    /\ runs' = [runs EXCEPT ![r].pc = "done", ![r].rem = 0]

\* a setup() that logs the error of the snapshot read and goes on (no throw at
\* line 96)
QueryErrorGoesOn(r) ==
    /\ NoMicrotask
    /\ r \in DOMAIN runs
    /\ runs[r].pc = "query"
    /\ channelRef = 0
    /\ loading' = FALSE
    /\ OpenChannel(r)
    /\ last' = Step("QueryError", "")
    /\ UNCHANGED << data, connected, retryTimeout, timers, mounted, gen, params >>

\* a catch block that also empties the RecordSet
QueryErrorClears(r) ==
    /\ NoMicrotask
    /\ r \in DOMAIN runs
    /\ runs[r].pc = "query"
    /\ data' = << >>
    /\ loading' = FALSE
    /\ connected' = FALSE
    /\ runs' = [runs EXCEPT ![r].pc = "failed"]
    /\ last' = Step("QueryError", "")
    /\ UNCHANGED << channelRef, retryTimeout, timers, mounted, gen, params, chan,
                    chanStatus >>

\* a catch block that forgets setLoading(false) (line 195)
QueryErrorKeepsLoading(r) ==
    /\ NoMicrotask
    /\ r \in DOMAIN runs
    /\ runs[r].pc = "query"
    /\ connected' = FALSE
    /\ runs' = [runs EXCEPT ![r].pc = "failed"]
    /\ last' = Step("QueryError", "")
    /\ UNCHANGED << data, loading, channelRef, retryTimeout, timers, mounted, gen,
                    params, chan, chanStatus >>

\* lines 92-97, 193-197: the snapshot read fails
QueryError(r) ==
    /\ NoMicrotask
    /\ r \in DOMAIN runs
    /\ runs[r].pc = "query"
    /\ loading' = FALSE
    /\ connected' = FALSE
    /\ runs' = [runs EXCEPT ![r].pc = "failed"]
    /\ last' = Step("QueryError", "")
    /\ UNCHANGED << data, channelRef, retryTimeout, timers, mounted, gen, params,
                    chan, chanStatus >>

\* a setup() that installs the snapshot and forgets setLoading(false) (line 101)
QueryOkKeepsLoading(r, initial) ==
    /\ NoMicrotask
    /\ r \in DOMAIN runs
    /\ runs[r].pc = "query"
    /\ initial \in Results(params[runs[r].gen])
    /\ data' = Install(initial)
    /\ IF channelRef # 0
         THEN /\ chan' = RemoveChannel(chan, channelRef)
              /\ runs' = [runs EXCEPT ![r].pc = "removing", ![r].rem = channelRef]
              /\ UNCHANGED << channelRef, chanStatus >>
         ELSE OpenChannel(r)
    /\ last' = Step("QueryOk", initial)
    /\ UNCHANGED << loading, connected, retryTimeout, timers, mounted, gen, params >>

\* lines 92-107 (no previous channel: through line 191); the step records the
\* `data` of the response
QueryOk(r, initial) ==
    /\ NoMicrotask
    /\ r \in DOMAIN runs
    /\ runs[r].pc = "query"
    /\ initial \in Results(params[runs[r].gen])
    /\ data' = Install(initial)
    /\ loading' = FALSE
    /\ IF channelRef # 0
         THEN /\ chan' = RemoveChannel(chan, channelRef)
              /\ runs' = [runs EXCEPT ![r].pc = "removing", ![r].rem = channelRef]
              /\ UNCHANGED << channelRef, chanStatus >>
         ELSE OpenChannel(r)
    /\ last' = Step("QueryOk", initial)
    /\ UNCHANGED << connected, retryTimeout, timers, mounted, gen, params >>

\* setup() going on to channel() without awaiting removeChannel (line 105)
RemoveResumeNoAwait(r) ==
    /\ r \in DOMAIN runs
    /\ runs[r].pc = "removing"
    /\ OpenChannel(r)
    /\ last' = Step("RemoveResume", "")
    /\ UNCHANGED << data, loading, connected, retryTimeout, timers, mounted, gen,
                    params >>

\* lines 105-191: removeChannel has resolved; the run continues
RemoveResume(r) ==
    /\ r \in DOMAIN runs
    /\ runs[r].pc = "removing"
    /\ chan[runs[r].rem] = "removed"
    /\ OpenChannel(r)
    /\ last' = Step("RemoveResume", "")
    /\ UNCHANGED << data, loading, connected, retryTimeout, timers, mounted, gen,
                    params >>

\* line 105 / line 206: the realtime client finishes the removal of a channel;
\* the promise returned by removeChannel resolves
RemoveDone(c) ==
    /\ NoMicrotask
    /\ chan[c] = "leaving"
    /\ chan' = [chan EXCEPT ![c] = "removed"]
    /\ chanStatus' = [chanStatus EXCEPT ![c] = "none"]
    /\ last' = Step("RemoveDone", "")
    /\ UNCHANGED << data, loading, connected, channelRef, retryTimeout, timers,
                    mounted, gen, params, runs >>

\* ---- callbacks of a channel --------------------------------------------------

\* lines 166-189: the subscribe callback of channel c receives status s.
\* A channel reports statuses until its removal has completed; CLOSED is the
\* last status of a channel.  A status that sets a timer is taken only while a
\* setup() invocation is left for the timer to start (MaxRuns).
Status(c, s) ==
    /\ NoMicrotask
    /\ chan[c] \in {"open", "leaving"}
    /\ chanStatus[c] # "CLOSED"
    /\ LET g   == runs[c].gen
           new == StatusRetry(s, retryTimeout, timers, g)
       IN  /\ new.tm # timers /\ TimerCount(new.tm) > TimerCount(timers)
                => Len(runs) + TimerCount(timers) < MaxRuns
           /\ connected' = StatusConnected(s, connected)
           /\ retryTimeout' = new.rt
           /\ timers' = new.tm
           /\ last' = Step(IF retryTimeout # 0 THEN "StatusT" ELSE "Status", s)
    /\ chanStatus' = [chanStatus EXCEPT ![c] = s]
    /\ UNCHANGED << data, loading, channelRef, mounted, gen, params, runs, chan >>

\* lines 129-164: the postgres_changes callback of channel c receives an event.
\* Events reach a joined channel until its removal has completed; |data| is
\* capped at MaxLen where the request sets no limit.
Change(c, ev) ==
    /\ NoMicrotask
    /\ chan[c] \in {"open", "leaving"}
    /\ chanStatus[c] = "SUBSCRIBED"
    /\ data' = Merge(data, ev, params[runs[c].gen])
    /\ Len(data') <= MaxLen
    /\ last' = Step("Change", IF c = channelRef THEN "current" ELSE "stale")
    /\ UNCHANGED << loading, connected, channelRef, retryTimeout, timers, mounted,
                    gen, params, runs, chan, chanStatus >>

\* lines 179-183: a timer set by a closure of generation g expires
TimerFire(g) ==
    /\ NoMicrotask
    /\ timers[g] > 0
    /\ Len(runs) < MaxRuns
    /\ timers' = [timers EXCEPT ![g] = @ - 1]
    /\ retryTimeout' = 0
    /\ runs' = StartSetup(runs, g, TRUE)
    /\ last' = Step("TimerFire", "")
    /\ UNCHANGED << data, loading, connected, channelRef, mounted, gen, params, chan,
                    chanStatus >>

\* ---- React: the dependency list changes, or the component unmounts ----------

\* an effect that shows the loading state again while its read is in flight
ParamChangeResetsLoading(p) ==
    /\ NoMicrotask
    /\ mounted
    /\ gen < MaxGen
    /\ p # params[gen]
    /\ Len(runs) + TimerCount(Cleanup.timers) < MaxRuns
    /\ chan' = Cleanup.chan
    /\ channelRef' = Cleanup.channelRef
    /\ retryTimeout' = Cleanup.retryTimeout
    /\ timers' = Cleanup.timers
    /\ gen' = gen + 1
    /\ params' = [params EXCEPT ![gen + 1] = p]
    /\ runs' = StartSetup(runs, gen + 1, FALSE)
    /\ loading' = TRUE
    /\ last' = Step("ParamChange", "")
    /\ UNCHANGED << data, connected, mounted, chanStatus >>

\* lines 202-215 then 62-200: cleanup of the old effect, then the new effect
ParamChange(p) ==
    /\ NoMicrotask
    /\ mounted
    /\ gen < MaxGen
    /\ p # params[gen]
    /\ Len(runs) + TimerCount(Cleanup.timers) < MaxRuns
    /\ chan' = Cleanup.chan
    /\ channelRef' = Cleanup.channelRef
    /\ retryTimeout' = Cleanup.retryTimeout
    /\ timers' = Cleanup.timers
    /\ gen' = gen + 1
    /\ params' = [params EXCEPT ![gen + 1] = p]
    /\ runs' = StartSetup(runs, gen + 1, FALSE)
    /\ last' = Step("ParamChange", "")
    /\ UNCHANGED << data, loading, connected, mounted, chanStatus >>

\* lines 202-214: cleanup with no effect run after it
Unmount ==
    /\ NoMicrotask
    /\ mounted
    /\ mounted' = FALSE
    /\ chan' = Cleanup.chan
    /\ channelRef' = Cleanup.channelRef
    /\ retryTimeout' = Cleanup.retryTimeout
    /\ timers' = Cleanup.timers
    /\ last' = Step("Unmount", "")
    /\ UNCHANGED << data, loading, connected, gen, params, runs, chanStatus >>

Next ==
    \/ \E r \in RunIds : QueryError(r)
    \/ \E r \in RunIds : \E initial \in AllResults : QueryOk(r, initial)
    \/ \E r \in RunIds : RemoveResume(r)
    \/ \E c \in RunIds : RemoveDone(c)
    \/ \E c \in RunIds : \E s \in Statuses : Status(c, s)
    \/ \E c \in RunIds : \E ev \in Events : Change(c, ev)
    \/ \E g \in Gens : TimerFire(g)
    \/ \E p \in Requests : ParamChange(p)
    \/ Unmount

Spec == Init /\ [][Next]_vars

TypeOK ==
    /\ data \in SeqsUpTo(MaxLen)
    /\ loading \in BOOLEAN /\ connected \in BOOLEAN /\ mounted \in BOOLEAN
    /\ channelRef \in 0..MaxRuns
    /\ retryTimeout \in 0..MaxGen
    /\ gen \in Gens
    /\ Len(runs) \in 1..MaxRuns


\* the timer callback is run once the delay has elapsed, unless it was cleared
\* and the continuation of a resolved await is run
LiveSpec ==
    /\ Spec
    /\ WF_vars(\E g \in Gens : TimerFire(g))
    /\ WF_vars(\E r \in RunIds : RemoveResume(r))

\* line 92: the promise of the snapshot read settles (with rows, with an error, or
\* rejected) and the continuation of `await query` is run
ResolveSpec ==
    /\ LiveSpec
    /\ WF_vars(\E r \in RunIds :
                 \/ QueryError(r)
                 \/ \E initial \in AllResults : QueryOk(r, initial))

\* ---- the merge rule on its own: one subscribed channel, richer records -------

MergeKeys    == { Null } \cup { Num(k) : k \in 0..MergeMaxKey }
MergeRecords == [id : 1..MergeMaxId, key : MergeKeys]
MergeEvents  == [type : {"INSERT", "UPDATE", "DELETE"}, rec : MergeRecords]
MergeParams  == [limit : 0..MergeMaxLimit, order : Orders]

MergeSeqs(n) == UNION { [1..k -> MergeRecords] : k \in 0..n }

\* what the view can answer to select('*') [.order(...)] [.limit(L)]
MergeSnapshots(p) ==
    { s \in MergeSeqs(IF p.limit # 0 THEN p.limit ELSE MergeMaxLen) :
        /\ DistinctIds(s)
        /\ p.order # "none" => IsSorted(s, p.order) }

\* the hook after its first setup() has installed the snapshot (line 100) and
\* its channel has reported SUBSCRIBED (line 169)
MergeInit ==
    /\ \E p \in MergeParams :
          /\ params = [g \in Gens |-> IF g = 1 THEN p ELSE NoParams]
          /\ data \in MergeSnapshots(p)
    /\ loading = FALSE
    /\ connected = TRUE
    /\ channelRef = 1
    /\ retryTimeout = 0
    /\ timers = [g \in Gens |-> 0]
    /\ mounted = TRUE
    /\ gen = 1
    /\ runs = << [gen |-> 1, pc |-> "done", rem |-> 0, retry |-> FALSE] >>
    /\ chan = [c \in RunIds |-> IF c = 1 THEN "open" ELSE "none"]
    /\ chanStatus = [c \in RunIds |-> IF c = 1 THEN "SUBSCRIBED" ELSE "none"]
    /\ last = Step("Status", "SUBSCRIBED")

\* lines 129-164: the postgres_changes callback of the hook's channel receives
\* an event; the step records the RecordSet it found and the event
ApplyChange(ev) ==
    /\ channelRef # 0
    /\ chan[channelRef] = "open"
    /\ chanStatus[channelRef] = "SUBSCRIBED"
    /\ data' = Merge(data, ev, params[runs[channelRef].gen])
    /\ Len(data') <= MergeMaxLen
    /\ last' = Step("Change", [prev |-> data, ev |-> ev])
    /\ UNCHANGED << loading, connected, channelRef, retryTimeout, timers, mounted,
                    gen, params, runs, chan, chanStatus >>

MergeNext == \E ev \in MergeEvents : ApplyChange(ev)

MergeSpec == MergeInit /\ [][MergeNext]_vars

\* ---- PairSpec: two hook instances on the one supabase client ---------------
\* Every cell of the hook (data, loading, connected, channelRef, retryTimeout,
\* timers, mounted, gen, params, runs, chanStatus) is here a function from the
\* handle to that handle's cell; params[h] is the handle's viewName; chan is the
\* channel list of the shared client, by channel name; last.st is the handle
\* that took the step (0: none).

PairMaxTime == 2   \* Date.now() ranges over 1..PairMaxTime
PairMaxLen  == 1   \* cap on |data| of a handle

Handles == 1..2

\* lines 5-12
TABLE_MAPPING ==
    [ v \in {"health", "risk", "climate_forecast", "weather_realtime", "alerts",
             "recommendations"} |->
        CASE v = "health"           -> "land_health"
          [] v = "risk"             -> "degradation_risk"
          [] v = "climate_forecast" -> "climate_data"
          [] v = "weather_realtime" -> "climate_data"
          [] v = "alerts"           -> "alerts"
          [] v = "recommendations"  -> "recommendations" ]

\* line 55: TABLE_MAPPING[viewName] || viewName
ActualTable(viewName) ==
    IF viewName \in DOMAIN TABLE_MAPPING THEN TABLE_MAPPING[viewName] ELSE viewName

\* the view names of the second handle: one that resolves to the table of the
\* first handle, and one that does not
PairViews == {"climate_data", "health"}

PairTables == << "land_health", "climate_data" >>

PairTimes == 1..PairMaxTime

\* line 109: `realtime_${actualTable}_${Date.now()}`, as a number: two names are
\* equal exactly when the table and the millisecond are
ChannelName(actualTable, now) ==
    LET t == CHOOSE i \in 1..Len(PairTables) : PairTables[i] = actualTable
    IN  (t - 1) * PairMaxTime + now

Names == 1..(Len(PairTables) * PairMaxTime)

\* the millisecond in a channel name
NameTime(n) == ((n - 1) % PairMaxTime) + 1

\* the latest millisecond at which a channel was named so far
Latest ==
    LET used == { NameTime(n) : n \in { m \in Names : chan[m] # "none" } }
    IN  IF used = {} THEN 1 ELSE CHOOSE t \in used : \A u \in used : u <= t

\* Date.now() does not go back, and a retry runs 5000 ms after a status of the
\* handle's previous channel (line 183)
TimeOk(h, now) == now >= Latest /\ now > runs[h].opened

\* the handles read and receive the record with id 1
PairRecords == { rec \in Records : rec.id = 1 }

PairEvents == { ev \in Events : ev.rec \in PairRecords }

PairResults ==
    { NullResult } \cup
    { Rows(s) : s \in UNION { [1..k -> PairRecords] : k \in 0..PairMaxLen } }

PairResumable ==
    { h \in Handles : runs[h].pc = "removing" /\ chan[runs[h].rem] = "removed" }

PairNoMicrotask == PairResumable = {}

\* Dashboard.jsx 53-54 and RealtimeWeatherWidget.jsx are mounted in one commit:
\* each effect has called setup()
PairInit ==
    /\ data = [h \in Handles |-> << >>]
    /\ loading = [h \in Handles |-> TRUE]
    /\ connected = [h \in Handles |-> FALSE]
    /\ channelRef = [h \in Handles |-> 0]
    /\ retryTimeout = [h \in Handles |-> 0]
    /\ timers = [h \in Handles |-> [g \in Gens |-> 0]]
    /\ mounted = [h \in Handles |-> TRUE]
    /\ gen = [h \in Handles |-> 1]
    /\ \E v \in PairViews :
         params = [h \in Handles |-> IF h = 1 THEN "climate_forecast" ELSE v]
    /\ runs = [h \in Handles |-> [pc |-> "query", rem |-> 0, retry |-> FALSE,
                                  opened |-> 0]]
    /\ chan = [n \in Names |-> "none"]
    /\ chanStatus = [h \in Handles |-> "none"]
    /\ last = Step("Init", 0)

\* lines 109-191 of handle h at millisecond now.  The client keeps its channels
\* by name: channel(name) for a name that is already joined either joins the
\* name once more, or returns the joined channel, whose subscribe() throws
\* (lines 193-197)
PairSubscribe(h, now, throws) ==
    LET n == ChannelName(ActualTable(params[h]), now)
    IN  /\ TimeOk(h, now)
        /\ throws => chan[n] = "open"
        /\ IF throws
             THEN /\ connected' = [connected EXCEPT ![h] = FALSE]
                  /\ channelRef' = [channelRef EXCEPT ![h] = 0]
                  /\ runs' = [runs EXCEPT ![h].pc = "failed", ![h].rem = 0]
                  /\ UNCHANGED << chan, chanStatus >>
             ELSE /\ chan' = [chan EXCEPT ![n] = "open"]
                  /\ chanStatus' = [chanStatus EXCEPT ![h] = "joining"]
                  /\ channelRef' = [channelRef EXCEPT ![h] = n]
                  /\ runs' = [runs EXCEPT ![h].pc = "done", ![h].rem = 0,
                                          ![h].opened = now]
                  /\ UNCHANGED connected

\* lines 92-97, 193-197: the snapshot read of handle h fails
PairQueryError(h) ==
    /\ PairNoMicrotask
    /\ runs[h].pc = "query"
    /\ loading' = [loading EXCEPT ![h] = FALSE]
    /\ connected' = [connected EXCEPT ![h] = FALSE]
    /\ runs' = [runs EXCEPT ![h].pc = "failed"]
    /\ last' = Step("QueryError", h)
    /\ UNCHANGED << data, channelRef, retryTimeout, timers, mounted, gen, params,
                    chan, chanStatus >>

\* lines 92-107 (no previous channel: through line 191) of handle h; with a
\* previous channel the run stops at the await of line 105, before line 109
\* reads the clock
PairQueryOk(h, initial, now, throws) ==
    /\ PairNoMicrotask
    /\ runs[h].pc = "query"
    /\ data' = [data EXCEPT ![h] = Install(initial)]
    /\ loading' = [loading EXCEPT ![h] = FALSE]
    /\ IF channelRef[h] # 0
         THEN /\ ~ throws /\ now = Latest
              /\ chan' = RemoveChannel(chan, channelRef[h])
              /\ runs' = [runs EXCEPT ![h].pc = "removing", ![h].rem = channelRef[h]]
              /\ UNCHANGED << channelRef, chanStatus, connected >>
         ELSE PairSubscribe(h, now, throws)
    /\ last' = Step("QueryOk", h)
    /\ UNCHANGED << retryTimeout, timers, mounted, gen, params >>

\* lines 105-191 of handle h: removeChannel has resolved; the run continues
PairRemoveResume(h, now, throws) ==
    /\ runs[h].pc = "removing"
    /\ chan[runs[h].rem] = "removed"
    /\ PairSubscribe(h, now, throws)
    /\ last' = Step("RemoveResume", h)
    /\ UNCHANGED << data, loading, retryTimeout, timers, mounted, gen, params >>

\* line 105 / line 206: the client finishes the removal of the channel named n
PairRemoveDone(n) ==
    /\ PairNoMicrotask
    /\ chan[n] = "leaving"
    /\ chan' = [chan EXCEPT ![n] = "removed"]
    /\ last' = Step("RemoveDone", 0)
    /\ UNCHANGED << data, loading, connected, channelRef, retryTimeout, timers,
                    mounted, gen, params, runs, chanStatus >>

\* lines 166-189: the subscribe callback of handle h receives status s
PairStatus(h, s) ==
    /\ PairNoMicrotask
    /\ channelRef[h] # 0
    /\ chan[channelRef[h]] \in {"open", "leaving"}
    /\ chanStatus[h] # "CLOSED"
    /\ LET new == StatusRetry(s, retryTimeout[h], timers[h], gen[h])
       IN  /\ connected' = [connected EXCEPT ![h] = StatusConnected(s, connected[h])]
           /\ retryTimeout' = [retryTimeout EXCEPT ![h] = new.rt]
           /\ timers' = [timers EXCEPT ![h] = new.tm]
    /\ chanStatus' = [chanStatus EXCEPT ![h] = s]
    /\ last' = Step("Status", h)
    /\ UNCHANGED << data, loading, channelRef, mounted, gen, params, runs, chan >>

\* lines 129-164: the postgres_changes callback of handle h receives an event
PairChange(h, ev) ==
    /\ PairNoMicrotask
    /\ channelRef[h] # 0
    /\ chan[channelRef[h]] \in {"open", "leaving"}
    /\ chanStatus[h] = "SUBSCRIBED"
    /\ data' = [data EXCEPT ![h] = Merge(data[h], ev, NoParams)]
    /\ Len(data'[h]) <= PairMaxLen
    /\ last' = Step("Change", h)
    /\ UNCHANGED << loading, connected, channelRef, retryTimeout, timers, mounted,
                    gen, params, runs, chan, chanStatus >>

\* lines 179-183: the retry timer of handle h expires; a handle has one setup()
\* in flight, and a millisecond is left to name the channel of the retry
PairTimerFire(h) ==
    /\ PairNoMicrotask
    /\ timers[h][gen[h]] > 0
    /\ runs[h].pc \in {"done", "failed"}
    /\ runs[h].opened < PairMaxTime
    /\ timers' = [timers EXCEPT ![h][gen[h]] = @ - 1]
    /\ retryTimeout' = [retryTimeout EXCEPT ![h] = 0]
    /\ runs' = [runs EXCEPT ![h].pc = "query", ![h].retry = TRUE]
    /\ last' = Step("TimerFire", h)
    /\ UNCHANGED << data, loading, connected, channelRef, mounted, gen, params,
                    chan, chanStatus >>

\* lines 202-214: the component of handle h unmounts
PairUnmount(h) ==
    /\ PairNoMicrotask
    /\ mounted[h]
    /\ LET new == CleanupOf(chan, channelRef[h], retryTimeout[h], timers[h])
       IN  /\ chan' = new.chan
           /\ channelRef' = [channelRef EXCEPT ![h] = new.channelRef]
           /\ retryTimeout' = [retryTimeout EXCEPT ![h] = new.retryTimeout]
           /\ timers' = [timers EXCEPT ![h] = new.timers]
    /\ mounted' = [mounted EXCEPT ![h] = FALSE]
    /\ last' = Step("Unmount", h)
    /\ UNCHANGED << data, loading, connected, gen, params, runs, chanStatus >>

PairNext ==
    \/ \E h \in Handles : PairQueryError(h)
    \/ \E h \in Handles : \E initial \in PairResults : \E now \in PairTimes :
         \E throws \in BOOLEAN : PairQueryOk(h, initial, now, throws)
    \/ \E h \in Handles : \E now \in PairTimes : \E throws \in BOOLEAN :
         PairRemoveResume(h, now, throws)
    \/ \E n \in Names : PairRemoveDone(n)
    \/ \E h \in Handles : \E s \in Statuses : PairStatus(h, s)
    \/ \E h \in Handles : \E ev \in PairEvents : PairChange(h, ev)
    \/ \E h \in Handles : PairTimerFire(h)
    \/ \E h \in Handles : PairUnmount(h)

PairSpec == PairInit /\ [][PairNext]_vars

\* ---- transformData on its own ------------------------------------------------
\* A record is a function from field names to values; a field the object does
\* not have reads as Undefined.  In TransformSpec params is the tableName and
\* data the argument, then the result, of transformData; last.st is the argument.

TransformMaxVal == 2   \* field values null, 0..TransformMaxVal

Undefined == [undefined |-> TRUE]

\* the failure of a property read on null (a TypeError)
Threw == [threw |-> TRUE]

Fields == {"id", "created_at", "updated_at", "observation_date", "assessment_date",
           "total_risk_score", "risk_score", "risk_factors", "factors", "date",
           "timestamp", "temperature", "temp_avg"}

Values == { Undefined, Null } \cup { Num(n) : n \in 0..TransformMaxVal }

\* the tables the views of TABLE_MAPPING resolve to
TransformTables == { ActualTable(v) : v \in DOMAIN TABLE_MAPPING }

MappedTables == {"land_health", "degradation_risk", "climate_data"}

\* the fields a branch of transformData reads or writes
BranchFields(tableName) ==
    CASE tableName = "land_health" ->
           {"observation_date", "created_at", "updated_at"}
      [] tableName = "degradation_risk" ->
           {"total_risk_score", "risk_factors", "assessment_date", "risk_score",
            "factors", "created_at", "updated_at"}
      [] tableName = "climate_data" ->
           {"date", "temp_avg", "timestamp", "temperature"}
      [] OTHER -> {"created_at", "risk_score", "temperature"}

\* the arguments: null, and the records with id 1 that vary in those fields
TransformInputs(tableName) ==
    { Null } \cup
    { [f \in Fields |-> IF f = "id" THEN Num(1)
                        ELSE IF f \in BranchFields(tableName) THEN own[f]
                        ELSE Undefined] :
        own \in [BranchFields(tableName) -> Values] }

\* a value that `!v` and `v || w` take for true
Truthy(v) == v # Undefined /\ v # Null /\ v # Num(0)

\* v || w
Or(v, w) == IF Truthy(v) THEN v ELSE w

\* transformData without its first line: the property reads fail on null
TransformDataUnguarded(tableName, rec) ==
    IF ~ Truthy(rec)
      THEN IF tableName \in MappedTables THEN Threw ELSE rec
    ELSE IF tableName = "land_health"
      THEN [rec EXCEPT !["created_at"] = Or(rec["observation_date"], rec["created_at"]),
                       !["updated_at"] = Or(rec["observation_date"], rec["updated_at"])]
    ELSE IF tableName = "degradation_risk"
      THEN [rec EXCEPT !["risk_score"] = rec["total_risk_score"],
                       !["factors"]    = rec["risk_factors"],
                       !["created_at"] = Or(rec["assessment_date"], rec["created_at"]),
                       !["updated_at"] = Or(rec["assessment_date"], rec["updated_at"])]
    ELSE IF tableName = "climate_data"
      THEN [rec EXCEPT !["timestamp"]   = rec["date"],
                       !["temperature"] = Or(rec["temperature"], rec["temp_avg"])]
    ELSE rec

\* transformData keeping the record's own risk_score and factors where it has them
TransformDataOwnFirst(tableName, rec) ==
    IF ~ Truthy(rec) THEN rec
    ELSE IF tableName = "land_health"
      THEN [rec EXCEPT !["created_at"] = Or(rec["observation_date"], rec["created_at"]),
                       !["updated_at"] = Or(rec["observation_date"], rec["updated_at"])]
    ELSE IF tableName = "degradation_risk"
      THEN [rec EXCEPT !["risk_score"] = Or(rec["risk_score"], rec["total_risk_score"]),
                       !["factors"]    = Or(rec["factors"], rec["risk_factors"]),
                       !["created_at"] = Or(rec["assessment_date"], rec["created_at"]),
                       !["updated_at"] = Or(rec["assessment_date"], rec["updated_at"])]
    ELSE IF tableName = "climate_data"
      THEN [rec EXCEPT !["timestamp"]   = rec["date"],
                       !["temperature"] = Or(rec["temperature"], rec["temp_avg"])]
    ELSE rec

\* lines 15-45: { ...data, alias: value, ... } per table
TransformData(tableName, rec) ==
    IF ~ Truthy(rec) THEN rec
    ELSE IF tableName = "land_health"
      THEN [rec EXCEPT !["created_at"] = Or(rec["observation_date"], rec["created_at"]),
                       !["updated_at"] = Or(rec["observation_date"], rec["updated_at"])]
    ELSE IF tableName = "degradation_risk"
      THEN [rec EXCEPT !["risk_score"] = rec["total_risk_score"],
                       !["factors"]    = rec["risk_factors"],
                       !["created_at"] = Or(rec["assessment_date"], rec["created_at"]),
                       !["updated_at"] = Or(rec["assessment_date"], rec["updated_at"])]
    ELSE IF tableName = "climate_data"
      THEN [rec EXCEPT !["timestamp"]   = rec["date"],
                       !["temperature"] = Or(rec["temperature"], rec["temp_avg"])]
    ELSE rec

\* the subscribed hook (as in MergeInit) holds a payload record of its table
TransformInit ==
    /\ params \in TransformTables
    /\ data \in TransformInputs(params)
    /\ loading = FALSE
    /\ connected = TRUE
    /\ channelRef = 1
    /\ retryTimeout = 0
    /\ timers = [g \in Gens |-> 0]
    /\ mounted = TRUE
    /\ gen = 1
    /\ runs = << [gen |-> 1, pc |-> "done", rem |-> 0, retry |-> FALSE] >>
    /\ chan = [c \in RunIds |-> IF c = 1 THEN "open" ELSE "none"]
    /\ chanStatus = [c \in RunIds |-> IF c = 1 THEN "SUBSCRIBED" ELSE "none"]
    /\ last = Step("Payload", "")

\* lines 133-134: transformData(actualTable, payload.new / payload.old); the
\* step records the argument
ApplyTransform ==
    /\ last.op = "Payload"
    /\ data' = TransformData(params, data)
    /\ last' = Step("Transform", data)
    /\ UNCHANGED << loading, connected, channelRef, retryTimeout, timers, mounted,
                    gen, params, runs, chan, chanStatus >>

TransformNext == ApplyTransform

TransformSpec == TransformInit /\ [][TransformNext]_vars

\* ---- the filter of a request, in the snapshot read and on the channel --------
\* A filter object is the sequence of its (key, value) pairs in the order of
\* Object.keys.  In FilterSpec params is [viewName, filter] as passed to the
\* hook and data is [query, channel]: the snapshot read built by lines 71-78
\* and the postgres_changes options of lines 123-128 (Undefined until built).

FilterMaxLen == 2   \* pairs in options.filter
FilterMaxVal == 1   \* filter values null, 1..FilterMaxVal, or undefined

FilterKeys == {"location_id", "is_forecast", "severity"}

FilterValues == { Undefined, Null } \cup { Num(n) : n \in 1..FilterMaxVal }

Pairs == [key : FilterKeys, value : FilterValues]

\* objects have one value per key
Filters ==
    { f \in UNION { [1..k -> Pairs] : k \in 0..FilterMaxLen } :
        \A i, j \in DOMAIN f : f[i].key = f[j].key => i = j }

\* the view names of the call sites, and one that TABLE_MAPPING does not hold
FilterViews == DOMAIN TABLE_MAPPING \cup {"climate_data"}

\* line 58 then line 63: JSON.parse(JSON.stringify(options.filter || {})); the
\* text has no member for a key whose value is undefined
ParsedFilter(filter) == SelectSeq(filter, LAMBDA pair : pair.value # Undefined)

\* lines 71-78: supabase.from(viewName).select('*') and one .eq(key, value) for
\* each entry of parsedFilter
SnapshotQuery(viewName, parsedFilter) ==
    [ from |-> viewName,
      eq   |-> { parsedFilter[i] : i \in DOMAIN parsedFilter } ]

\* a filter string built from the last entry of parsedFilter
FilterStringLast(parsedFilter) ==
    IF Len(parsedFilter) > 0
      THEN [ key |-> parsedFilter[Len(parsedFilter)].key, op |-> "eq",
             value |-> parsedFilter[Len(parsedFilter)].value ]
      ELSE Undefined

\* lines 112-117: `${firstKey}=eq.${firstValue}`, or undefined
FilterString(parsedFilter) ==
    IF Len(parsedFilter) > 0
      THEN [ key |-> parsedFilter[1].key, op |-> "eq",
             value |-> parsedFilter[1].value ]
      ELSE Undefined

\* lines 123-128: the options of .on('postgres_changes', ...)
ChannelOptions(viewName, parsedFilter) ==
    [ event |-> "*", schema |-> "public", table |-> ActualTable(viewName),
      filter |-> FilterString(parsedFilter) ]

\* the hook is rendered with a view name and a filter; setup() has started
FilterInit ==
    /\ params \in [viewName : FilterViews, filter : Filters]
    /\ data = [query |-> Undefined, channel |-> Undefined]
    /\ loading = TRUE
    /\ connected = FALSE
    /\ channelRef = 0
    /\ retryTimeout = 0
    /\ timers = [g \in Gens |-> 0]
    /\ mounted = TRUE
    /\ gen = 1
    /\ runs = StartSetup(<< >>, 1, FALSE)
    /\ chan = [c \in RunIds |-> "none"]
    /\ chanStatus = [c \in RunIds |-> "none"]
    /\ last = Step("Init", "")

\* lines 71-92: setup() builds the snapshot read and awaits it
BuildQuery ==
    /\ last.op = "Init"
    /\ data' = [data EXCEPT !.query =
                  SnapshotQuery(params.viewName, ParsedFilter(params.filter))]
    /\ last' = Step("BuildQuery", "")
    /\ UNCHANGED << loading, connected, channelRef, retryTimeout, timers, mounted,
                    gen, params, runs, chan, chanStatus >>

\* lines 100-191: the read has resolved; setup() opens the channel
SubscribeFiltered ==
    /\ last.op = "BuildQuery"
    /\ data' = [data EXCEPT !.channel =
                  ChannelOptions(params.viewName, ParsedFilter(params.filter))]
    /\ loading' = FALSE
    /\ OpenChannel(1)
    /\ last' = Step("Subscribe", "")
    /\ UNCHANGED << connected, retryTimeout, timers, mounted, gen, params >>

FilterNext == BuildQuery \/ SubscribeFiltered

FilterSpec == FilterInit /\ [][FilterNext]_vars

\* ---- getRecommendations and the decode of its fallback response -------------
\* JSON values: Undefined, Null, Num(n), arrays Arr(items) and objects
\* Obj(d, r) with the properties data and recommendations (Undefined: not there).
\* In RecsSpec params is [supabase, fallback], the outcomes of the two requests,
\* and data the value getRecommendations returns, then the array that
\* normalizeRecommendations makes of it.

RecsMaxVal == 2   \* array items 1..RecsMaxVal

Arr(items) == [array |-> items]

Obj(d, r) == [data |-> d, recommendations |-> r]

\* Array.isArray(v)
IsArray(v) == DOMAIN v = {"array"}

\* typeof v === 'object', for a truthy v
IsObject(v) == IsArray(v) \/ "data" \in DOMAIN v

\* v?.f
Get(v, f) == IF f \in DOMAIN v THEN v[f] ELSE Undefined

Arrays == { Arr(<< >>) } \cup { Arr(<< Num(n) >>) : n \in 1..RecsMaxVal }

Leaves == { Undefined, Null, Num(0), Num(1) } \cup Arrays

\* the body of the fallback response: a leaf, or an object whose data is a leaf
\* or an object with a data of its own
Envelopes ==
    Leaves \cup
    { Obj(d, r) : d \in Leaves \cup { Obj(dd, Undefined) : dd \in Leaves },
                  r \in Leaves }

\* await supabase.from(...)...: { data, error }, or a rejection
SupabaseOutcomes ==
    { [kind |-> "ok", data |-> d] : d \in { Null } \cup Arrays } \cup
    { [kind |-> k, data |-> Null] : k \in {"error", "rejected"} }

\* await api.get(...): a response with a body, or a rejection
FallbackOutcomes ==
    { [kind |-> "ok", data |-> e] : e \in Envelopes } \cup
    { [kind |-> "rejected", data |-> Undefined] }

\* part_000 lines 367-382: the first truthy of the four paths, else []; an
\* object is wrapped, any other non-array becomes []
DecodeFallback(body) ==
    LET recommendations ==
          Or(Get(Get(body, "data"), "data"),
          Or(Get(body, "data"),
          Or(Get(body, "recommendations"),
          Or(body, Arr(<< >>)))))
    IN  IF IsArray(recommendations) THEN recommendations
        ELSE IF Truthy(recommendations) /\ IsObject(recommendations)
          THEN Arr(<< recommendations >>)
        ELSE Arr(<< >>)

\* getRecommendations without the inner catch: a failed fallback is rethrown
GetRecommendationsRethrows(supabase, fallback) ==
    IF supabase.kind = "ok"
      THEN [data |-> Or(supabase.data, Arr(<< >>)), error |-> Undefined]
    ELSE IF fallback.kind = "ok"
      THEN [data |-> DecodeFallback(fallback.data), error |-> Undefined]
    ELSE Threw

\* part_000 lines 333-404: the value returned; every failure of the first
\* request, returned or thrown, leads to the fallback
GetRecommendations(supabase, fallback) ==
    IF supabase.kind = "ok"
      THEN [data |-> Or(supabase.data, Arr(<< >>)), error |-> Undefined]
    ELSE IF fallback.kind = "ok"
      THEN [data |-> DecodeFallback(fallback.data), error |-> Undefined]
    ELSE [data |-> Arr(<< >>), error |-> Num(1)]

\* RecommendationsList.jsx lines 30-50
NormalizeRecommendations(response) ==
    LET recs ==
          Or(Get(Get(response, "data"), "data"),
          Or(Get(Get(response, "data"), "recommendations"),
          Or(Get(response, "data"),
          Or(Get(response, "recommendations"),
          Or(response, Arr(<< >>))))))
    IN  IF IsArray(recs) THEN recs
        ELSE IF Truthy(recs) THEN Arr(<< recs >>)
        ELSE Arr(<< >>)

\* RecommendationsList.jsx line 63: loadRecommendations calls getRecommendations;
\* the hook of the component is subscribed (as in MergeInit)
RecsInit ==
    /\ params \in [supabase : SupabaseOutcomes, fallback : FallbackOutcomes]
    /\ data = Undefined
    /\ loading = FALSE
    /\ connected = TRUE
    /\ channelRef = 1
    /\ retryTimeout = 0
    /\ timers = [g \in Gens |-> 0]
    /\ mounted = TRUE
    /\ gen = 1
    /\ runs = << [gen |-> 1, pc |-> "done", rem |-> 0, retry |-> FALSE] >>
    /\ chan = [c \in RunIds |-> IF c = 1 THEN "open" ELSE "none"]
    /\ chanStatus = [c \in RunIds |-> IF c = 1 THEN "SUBSCRIBED" ELSE "none"]
    /\ last = Step("Load", "")

\* part_000 lines 333-404: both requests have settled
Fetch ==
    /\ last.op = "Load"
    /\ data' = GetRecommendations(params.supabase, params.fallback)
    /\ last' = Step("GetRecommendations", "")
    /\ UNCHANGED << loading, connected, channelRef, retryTimeout, timers, mounted,
                    gen, params, runs, chan, chanStatus >>

\* RecommendationsList.jsx lines 64-66; the step records the response
Normalize ==
    /\ last.op = "GetRecommendations"
    /\ data # Threw
    /\ data' = NormalizeRecommendations(data)
    /\ last' = Step("Normalize", data)
    /\ UNCHANGED << loading, connected, channelRef, retryTimeout, timers, mounted,
                    gen, params, runs, chan, chanStatus >>

RecsNext == Fetch \/ Normalize

RecsSpec == RecsInit /\ [][RecsNext]_vars


\* ---- notions the claims use ------------------------------------------------

OpenChannels == { c \in RunIds : chan[c] = "open" }

InFlight == { r \in DOMAIN runs : runs[r].pc = "query" }

\* a setup() of the current generation has installed its snapshot
SnapshotInstalled ==
    \E r \in DOMAIN runs : runs[r].gen = gen /\ runs[r].pc \in {"removing", "done"}

StatusStep == last.op \in {"Status", "StatusT"}

\* the last step applied a change event of the given type (MergeSpec)
Applied(type) == last.op = "Change" /\ last.st.ev.type = type

\* the request of the hook's current effect
Request == params[gen]

\* the candidate paths of the fallback decode, in its priority order
FallbackCandidates ==
    LET body == params.fallback.data
    IN  << Get(Get(body, "data"), "data"), Get(body, "data"),
           Get(body, "recommendations"), body >>

\* transformData has been applied to the record last.st of table params
Transformed == last.op = "Transform"

Count(s, x) == Cardinality({ i \in DOMAIN s : s[i] = x })

\* s and t hold the same records, each as many times
SameRecords(s, t) ==
    /\ Len(s) = Len(t)
    /\ \A i \in DOMAIN s : Count(s, s[i]) = Count(t, s[i])

\* ---- C1 ----------------------------------------------------------------------

\* C1: with limit L set on the current request, once that request's snapshot is
\* installed the RecordSet never holds more than L records.
C1_AtMostLimit ==
    (mounted /\ params[gen].limit # 0 /\ SnapshotInstalled)
        => Len(data) <= params[gen].limit

\* ---- C2 ----------------------------------------------------------------------

\* C2: a snapshot response of a setup() started by an effect whose cleanup has
\* run since (the generation moved on, or the hook unmounted) leaves data as it is.
C2_DiscardAfterDeactivate ==
    [][ \A r \in DOMAIN runs :
          ( /\ runs[r].pc = "query"
            /\ ~ runs[r].retry
            /\ (~ mounted \/ runs[r].gen # gen)
            /\ runs'[r].pc \in {"removing", "done"} )
          => data' = data ]_vars

\* ---- C3 ----------------------------------------------------------------------

\* C3: at most one channel opened by the hook is open (subscribed, removeChannel
\* not yet called on it) at any time.
C3_OneOpenChannel == Cardinality(OpenChannels) <= 1

\* ---- C4 ----------------------------------------------------------------------

\* C4: after the final cleanup there is no open channel and no pending timer, in
\* every later state.
C4_QuietAfterDeactivate ==
    ~ mounted => (OpenChannels = {} /\ TimerCount(timers) = 0)

\* ---- C5 ----------------------------------------------------------------------

\* C5: at most one reconnect timer is pending, and it is the one
\* retryTimeout.current refers to.
C5_OneTimer ==
    /\ TimerCount(timers) <= 1
    /\ \A g \in Gens : timers[g] > 0 => retryTimeout = g

\* a CLOSED / CHANNEL_ERROR arrived while a retry was pending; one timer remains
C5_Witness ==
    /\ last.op = "StatusT"
    /\ last.st \in {"CLOSED", "CHANNEL_ERROR"}
    /\ TimerCount(timers) = 1

\* ---- C6 ----------------------------------------------------------------------

\* C6: while the latest status of the hook's channel is TIMED_OUT, no timer-driven
\* setup() starts.
C6_TimedOutTerminal ==
    (channelRef # 0 /\ chanStatus[channelRef] = "TIMED_OUT")
        => last.op # "TimerFire"

\* ---- C7 ----------------------------------------------------------------------

\* C7 (as stated): a setup() started by the retry timer never has a snapshot read
\* in flight.
C7_NoSnapshotOnRetry ==
    \A r \in DOMAIN runs : runs[r].retry => runs[r].pc # "query"

\* C7 (amended): the expiry of the retry timer starts setup() from its first step:
\* it issues a snapshot read and touches neither the channels nor data; when that
\* read succeeds the RecordSet is replaced by its result, and only then is the old
\* channel removed and the new one opened.
C7_RetryRunsWholeSetup ==
    [][ /\ ( Len(runs') = Len(runs) + 1 /\ runs'[Len(runs')].retry )
            => /\ runs'[Len(runs')].pc = "query"
               /\ chan' = chan /\ channelRef' = channelRef /\ data' = data
        /\ \A r \in DOMAIN runs :
             ( runs[r].retry /\ runs[r].pc = "query" )
               => /\ chan[r] = "none"
                  /\ runs'[r].pc \in {"removing", "done"}
                       => /\ data' \in Snapshots(params[runs[r].gen])
                          /\ ~ loading' ]_vars

\* the retry timer has just expired after a stream failure
C7_Witness ==
    /\ last.op = "TimerFire"
    /\ \E r \in DOMAIN runs : runs[r].retry /\ runs[r].pc = "query"
    /\ \E c \in RunIds : chanStatus[c] \in {"CLOSED", "CHANNEL_ERROR"}

\* ---- C8 ----------------------------------------------------------------------

\* C8: every CLOSED or CHANNEL_ERROR received while the hook is mounted is
\* eventually followed by a timer-driven setup(), a SUBSCRIBED status or a cleanup.
C8_RetryEventually ==
    [] ( ( mounted /\ StatusStep /\ last.st \in {"CLOSED", "CHANNEL_ERROR"} )
         => <> ( \/ last.op = "TimerFire"
                 \/ StatusStep /\ last.st = "SUBSCRIBED"
                 \/ last.op \in {"ParamChange", "Unmount"} ) )

\* a stream failure on the mounted hook was followed by the timer-driven setup()
C8_Witness ==
    /\ mounted
    /\ last.op = "TimerFire"
    /\ \E c \in RunIds : chanStatus[c] \in {"CLOSED", "CHANNEL_ERROR"}

\* ---- C9 ----------------------------------------------------------------------

\* C9: right after a SUBSCRIBED status no timer is pending and connected is true.
C9_SubscribedClearsTimer ==
    ( StatusStep /\ last.st = "SUBSCRIBED" )
        => ( retryTimeout = 0 /\ TimerCount(timers) = 0 /\ connected )

\* SUBSCRIBED arrived while a retry was pending
C9_Witness ==
    /\ last.op = "StatusT"
    /\ last.st = "SUBSCRIBED"
    /\ retryTimeout = 0

\* ---- C10 ---------------------------------------------------------------------

\* C10: no change event delivered by the hook's channel is applied to data while
\* a snapshot read is in flight.
C10_NoEventDuringSnapshot ==
    ( last.op = "Change" /\ last.st = "current" ) => InFlight = {}

\* ---- C11 ---------------------------------------------------------------------

C12_CleanupIdempotent ==
    LET once  == Cleanup
        twice == CleanupOf(once.chan, once.channelRef, once.retryTimeout, once.timers)
        here  == [ chan |-> chan, channelRef |-> channelRef,
                   retryTimeout |-> retryTimeout, timers |-> timers,
                   threw |-> FALSE ]
    IN  /\ ~ once.threw
        /\ twice = once
        /\ ( channelRef = 0 /\ retryTimeout = 0 ) => once = here
        /\ last.op \in {"Unmount", "ParamChange"} => once = here

\* the cleanup has run on a hook that never opened a channel nor set a timer
C12_Witness ==
    /\ last.op = "Unmount"
    /\ \A c \in RunIds : chan[c] = "none"
    /\ TimerCount(timers) = 0

\* ---- C13 ---------------------------------------------------------------------

\* C13: after an INSERT the RecordSet holds the new record followed by the
\* previous records, cut to the first L of them when limit L is set; with no
\* orderBy in exactly that order, with orderBy those same records re-sorted.
C13_InsertPrependsThenTruncates ==
    Applied("INSERT") =>
        LET prev == last.st.prev
            rec  == last.st.ev.rec
            n    == IF Request.limit # 0 /\ Request.limit < Len(prev) + 1
                      THEN Request.limit ELSE Len(prev) + 1
            kept == [i \in 1..n |-> IF i = 1 THEN rec ELSE prev[i - 1]]
        IN  IF Request.order = "none" THEN data = kept
                                      ELSE SameRecords(data, kept)

\* limit 1, descending: R = [a(T1)], INSERT b(T2) with T1 < T2, result [b]
C13_Witness ==
    /\ Applied("INSERT")
    /\ Request = [limit |-> 1, order |-> "desc"]
    /\ last.st.prev = << [id |-> 1, key |-> Num(1)] >>
    /\ last.st.ev.rec = [id |-> 2, key |-> Num(2)]
    /\ data = << [id |-> 2, key |-> Num(2)] >>

\* ---- C14 ---------------------------------------------------------------------

\* C14: an UPDATE whose id matches no record of R leaves R as it was: the same
\* records in the same order.
C14_UpdateNoMatchUnchanged ==
    ( Applied("UPDATE")
      /\ \A i \in DOMAIN last.st.prev : last.st.prev[i].id # last.st.ev.rec.id )
        => data = last.st.prev

\* ---- C15 ---------------------------------------------------------------------

\* C15: a DELETE whose id matches no record of R leaves R as it was: the same
\* records in the same order.
C15_DeleteNoMatchUnchanged ==
    ( Applied("DELETE")
      /\ \A i \in DOMAIN last.st.prev : last.st.prev[i].id # last.st.ev.rec.id )
        => data = last.st.prev

\* ---- C16 ---------------------------------------------------------------------

\* C16: after an UPDATE R has as many records as before; every record that had
\* the id of the new record is now the new record, every other record is still
\* there as it was, as many times as before; with no orderBy each stays in place.
C16_UpdateReplacesMatching ==
    Applied("UPDATE") =>
        LET prev == last.st.prev
            rec  == last.st.ev.rec
            hits == Cardinality({ i \in DOMAIN prev : prev[i].id = rec.id })
        IN  /\ Len(data) = Len(prev)
            /\ \A x \in MergeRecords :
                  Count(data, x) = IF x = rec THEN hits
                                   ELSE IF x.id = rec.id THEN 0
                                   ELSE Count(prev, x)
            /\ Request.order = "none" =>
                  \A i \in DOMAIN prev :
                      data[i] = IF prev[i].id = rec.id THEN rec ELSE prev[i]

\* an UPDATE has replaced two records of the same id and left a third one alone
C16_Witness ==
    /\ Applied("UPDATE")
    /\ Len(data) = MergeMaxLen
    /\ Count(last.st.prev, last.st.ev.rec) = 0
    /\ Count(data, last.st.ev.rec) = 2
    /\ \E i \in DOMAIN data : data[i].id # last.st.ev.rec.id

\* ---- C17 ---------------------------------------------------------------------

\* C17: after a DELETE R is the previous R without the records of the deleted
\* id, the remaining records in the order they had, with orderBy set or not.
C17_DeleteKeepsOrder ==
    Applied("DELETE") =>
        data = SelectSeq(last.st.prev, LAMBDA r : r.id # last.st.ev.rec.id)

\* ---- C18 ---------------------------------------------------------------------

C19_NullIsLowest ==
    ( last.op = "Change" /\ Request.order # "none" ) =>
        \A i, j \in DOMAIN data :
            data[i].key.isNull =>
                IF data[j].key.isNull
                  THEN Compare(data[i].key, data[j].key) = 0
                  ELSE /\ Compare(data[i].key, data[j].key) < 0
                       /\ IF Request.order = "asc" THEN i < j ELSE i > j

\* ---- C20 ---------------------------------------------------------------------

\* C20: while the hook has its channel open, R changes only by the installation
\* of a snapshot or by the merge rule applied to the current R for one event
\* delivered on that channel; so R is the fold of the merge rule over the events
\* of that channel since the snapshot.
C20_FoldInArrivalOrder ==
    [][ ( channelRef # 0 /\ chan[channelRef] = "open" /\ data' # data )
          => \/ last'.op = "QueryOk"
             \/ /\ last'.op = "Change"
                /\ last'.st = "current"
                /\ \E ev \in Events :
                      data' = Merge(data, ev, params[runs[channelRef].gen]) ]_vars

\* ---- C21 ---------------------------------------------------------------------

\* C21: the step in which a snapshot read fails sets loading to false, opens and
\* removes no channel, sets no timer and starts no setup(); the setup() that
\* failed stays failed and never has a channel.
C21_SnapshotFailureStops ==
    [][ /\ last'.op = "QueryError"
            => /\ ~ loading'
               /\ chan' = chan /\ channelRef' = channelRef
               /\ timers' = timers /\ retryTimeout' = retryTimeout
               /\ Len(runs') = Len(runs)
               /\ InFlight' \subseteq InFlight
        /\ \A r \in DOMAIN runs :
              runs[r].pc = "failed" => ( runs'[r].pc = "failed" /\ chan'[r] = "none" )
      ]_vars

\* the first snapshot read has failed and other steps have followed
C21_Witness ==
    /\ runs[1].pc = "failed"
    /\ ~ loading
    /\ last.op # "QueryError"
    /\ Len(runs) = 1

\* ---- C22 ---------------------------------------------------------------------

\* C22: the step in which a snapshot read fails leaves data as it was.
C22_FailureKeepsRecords ==
    [][ last'.op = "QueryError" => data' = data ]_vars

\* the snapshot read of a reactivation has failed while records were visible
C22_Witness ==
    /\ last.op = "QueryError"
    /\ data # << >>
    /\ \E r \in DOMAIN runs : runs[r].pc = "failed" /\ r > 1

\* ---- C23 ---------------------------------------------------------------------

\* C23: the step in which a snapshot read succeeds leaves data equal to the rows
\* of the response, empty if the response held null, and loading false; a
\* setup() has no channel before it has taken that step.
C23_SnapshotInstalled ==
    [][ /\ last'.op = "QueryOk"
            => /\ ~ loading'
               /\ IF last'.st.isNull THEN data' = << >> ELSE data' = last'.st.rows
        /\ \A r \in DOMAIN runs : runs[r].pc = "query" => chan[r] = "none"
      ]_vars

\* a response with rows has just been installed and the channel opened after it
C23_Witness ==
    /\ last.op = "QueryOk"
    /\ ~ last.st.isNull
    /\ Len(data) = MaxLen
    /\ channelRef # 0 /\ chanStatus[channelRef] = "joining"

\* ---- C24 ---------------------------------------------------------------------

\* C24: the step in which a channel reports CLOSED or CHANNEL_ERROR leaves
\* connected false and data and loading as they were.
C24_FailureStatusFrame ==
    [][ ( last'.op \in {"Status", "StatusT"}
          /\ last'.st \in {"CLOSED", "CHANNEL_ERROR"} )
          => ( ~ connected' /\ data' = data /\ loading' = loading ) ]_vars

\* a stream failure has just been reported while records were visible
C24_Witness ==
    /\ StatusStep
    /\ last.st \in {"CLOSED", "CHANNEL_ERROR"}
    /\ data # << >>
    /\ ~ connected /\ ~ loading

\* ---- C25 ---------------------------------------------------------------------

\* C25: right after the options have changed data is empty and connected is
\* false, and at all times every open channel was opened for the current
\* options.
C25_ParamChangeDestroys ==
    /\ last.op = "ParamChange" => ( data = << >> /\ ~ connected )
    /\ mounted => \A c \in OpenChannels : runs[c].gen = gen

\* ---- C26 ---------------------------------------------------------------------

\* C26: connected is true only while channelRef names a channel whose latest
\* status is SUBSCRIBED.
C26_ConnectedMeansSubscribed ==
    connected => ( channelRef # 0 /\ chanStatus[channelRef] = "SUBSCRIBED" )

\* C27: a snapshot failure, status event, change event, timer expiry or
\* deactivate on one handle leaves the records, loading, connected, channel and
\* timer of every other handle unchanged, also when both handles resolve to the
\* same source table.
C27_HandlesIsolated ==
    [][ \A h, k \in Handles :
          ( /\ k # h
            /\ last'.st = h
            /\ last'.op \in {"QueryError", "Status", "Change", "TimerFire", "Unmount"} )
          => /\ data'[k] = data[k]
             /\ loading'[k] = loading[k]
             /\ connected'[k] = connected[k]
             /\ channelRef'[k] = channelRef[k]
             /\ channelRef[k] # 0 => chan'[channelRef[k]] = chan[channelRef[k]]
             /\ retryTimeout'[k] = retryTimeout[k]
             /\ timers'[k] = timers[k] ]_vars

\* C28: transform only adds aliases and never deletes or alters original fields:
\* each field of the input record is present in the output record with the same
\* value, for every source table and every record.
C28_OriginalFieldsKept ==
    ( Transformed /\ Truthy(last.st) )
      => \A f \in Fields : last.st[f] # Undefined => data[f] = last.st[f]

\* C29 as stated: transform is total and passes unmapped tables through, and for
\* a mapped table a record lacking the aliased source field yields a record with
\* the alias unset or null.
C29_AliasUnsetWhenSourceAbsent ==
    Transformed =>
      /\ data \in [Fields -> Values] \cup { Null }
      /\ params \notin MappedTables => data = last.st
      /\ ( params = "land_health" /\ Truthy(last.st) ) =>
            ( last.st["observation_date"] = Undefined
                => /\ data["created_at"] \in { Undefined, Null }
                   /\ data["updated_at"] \in { Undefined, Null } )
      /\ ( params = "degradation_risk" /\ Truthy(last.st) ) =>
            /\ last.st["total_risk_score"] = Undefined
                 => data["risk_score"] \in { Undefined, Null }
            /\ last.st["risk_factors"] = Undefined
                 => data["factors"] \in { Undefined, Null }
            /\ last.st["assessment_date"] = Undefined
                 => /\ data["created_at"] \in { Undefined, Null }
                    /\ data["updated_at"] \in { Undefined, Null }
      /\ ( params = "climate_data" /\ Truthy(last.st) ) =>
            /\ last.st["date"] = Undefined
                 => data["timestamp"] \in { Undefined, Null }
            /\ last.st["temp_avg"] = Undefined
                 => data["temperature"] \in { Undefined, Null }

\* C29, amended: transform is total and passes unmapped tables through: for a
\* table other than land_health, degradation_risk and climate_data the output
\* equals the input; for a mapped table the output is a record (or the null it
\* was given), in which risk_score, factors and timestamp are unset or null when
\* the input lacks their source field, and created_at, updated_at and
\* temperature keep the record's own value (temperature: or unset) when the
\* input lacks theirs.
C29_TotalAndPassThrough ==
    Transformed =>
      /\ data \in [Fields -> Values] \cup { Null }
      /\ params \notin MappedTables => data = last.st
      /\ ( params = "land_health" /\ Truthy(last.st) ) =>
            ( last.st["observation_date"] = Undefined
                => /\ data["created_at"] = last.st["created_at"]
                   /\ data["updated_at"] = last.st["updated_at"] )
      /\ ( params = "degradation_risk" /\ Truthy(last.st) ) =>
            /\ last.st["total_risk_score"] = Undefined
                 => data["risk_score"] \in { Undefined, Null }
            /\ last.st["risk_factors"] = Undefined
                 => data["factors"] \in { Undefined, Null }
            /\ last.st["assessment_date"] = Undefined
                 => /\ data["created_at"] = last.st["created_at"]
                    /\ data["updated_at"] = last.st["updated_at"]
      /\ ( params = "climate_data" /\ Truthy(last.st) ) =>
            /\ last.st["date"] = Undefined
                 => data["timestamp"] \in { Undefined, Null }
            /\ last.st["temp_avg"] = Undefined
                 => data["temperature"] \in { Undefined, last.st["temperature"] }

\* a land_health record with a created_at of its own and no observation_date
\* has been transformed: created_at is still that value
C29_Witness ==
    /\ Transformed
    /\ params = "land_health"
    /\ Truthy(last.st)
    /\ last.st["observation_date"] = Undefined
    /\ last.st["created_at"] = Num(1)
    /\ data["created_at"] = Num(1)
    /\ data["updated_at"] = Undefined

\* C30: for source table degradation_risk the transformed record has risk_score
\* equal to the input's total_risk_score and factors equal to the input's
\* risk_factors, alongside the original total_risk_score and risk_factors.
C30_RiskAliases ==
    ( Transformed /\ params = "degradation_risk" /\ Truthy(last.st) )
      => /\ data["risk_score"] = last.st["total_risk_score"]
         /\ data["factors"] = last.st["risk_factors"]
         /\ data["total_risk_score"] = last.st["total_risk_score"]
         /\ data["risk_factors"] = last.st["risk_factors"]

\* a record with total_risk_score 2 and risk_factors 1, and other values of its
\* own under the alias names, has been transformed
C30_Witness ==
    /\ Transformed
    /\ params = "degradation_risk"
    /\ Truthy(last.st)
    /\ last.st["total_risk_score"] = Num(2)
    /\ last.st["risk_factors"] = Num(1)
    /\ last.st["risk_score"] = Num(1)
    /\ last.st["factors"] = Num(2)
    /\ data["risk_score"] = Num(2)
    /\ data["factors"] = Num(1)

\* C31: for source table climate_data, the transformed record's temperature is
\* the record's own temperature whenever that field is present (the value 0
\* included; a null counts as absent), and temp_avg only when it is absent.
C31_OwnTemperatureFirst ==
    ( Transformed /\ params = "climate_data" /\ Truthy(last.st) )
      => IF last.st["temperature"] \notin { Undefined, Null }
           THEN data["temperature"] = last.st["temperature"]
           ELSE data["temperature"] = last.st["temp_avg"]

\* C32: the snapshot read applies every (key, value) pair of the filter as
\* AND-combined equality predicates against the logical view name, while the
\* channel is opened on the resolved source table with only the first pair as
\* filter, and with no filter when the map is empty.  (A key whose value is
\* undefined is no pair of the map: JSON has no text for it.)
C32_SnapshotAllChannelFirst ==
    last.op = "Subscribe" =>
      LET f     == params.filter
          pairs == { i \in DOMAIN f : f[i].value # Undefined }
      IN  /\ data.query.from = params.viewName
          /\ data.query.eq = { f[i] : i \in pairs }
          /\ data.channel.table = ActualTable(params.viewName)
          /\ IF pairs = {}
               THEN data.channel.filter = Undefined
               ELSE \E i \in pairs :
                      /\ \A j \in pairs : i <= j
                      /\ data.channel.filter =
                           [key |-> f[i].key, op |-> "eq", value |-> f[i].value]

\* a view that resolves to another table, with a filter of two pairs: both are
\* in the snapshot read, the first one is on the channel
C32_Witness ==
    /\ last.op = "Subscribe"
    /\ params.viewName = "health"
    /\ Len(params.filter) = 2
    /\ Cardinality(data.query.eq) = 2
    /\ data.channel.table = "land_health"
    /\ data.channel.filter # Undefined
    /\ data.channel.filter.key = params.filter[1].key
    /\ chan[1] = "open"

\* C33: the decode of the recommendation service response tries the candidate
\* paths in a fixed priority order and returns the first candidate that is
\* array-typed; a non-array candidate earlier in the order never shadows an
\* array-typed candidate later in the order.
C33_FirstArrayWins ==
    ( /\ last.op = "GetRecommendations"
      /\ params.supabase.kind # "ok"
      /\ params.fallback.kind = "ok" )
      => \A i \in 1..4 :
           ( /\ IsArray(FallbackCandidates[i])
             /\ \A j \in 1..(i - 1) : ~ IsArray(FallbackCandidates[j]) )
           => data.data = FallbackCandidates[i]

\* C34: in every reachable state the ids of the records in the RecordSet are
\* pairwise distinct (the snapshots have distinct ids), whatever snapshots are
\* installed and whatever events arrive, an INSERT for a record the snapshot
\* returned and the same event on two channels included.
C34_DistinctIds == DistinctIds(data)

\* C35: a status event or change event delivered by a channel that the hook has
\* torn down has no effect: it changes neither connected nor the records and
\* sets no timer.  Stated for the steps taken while none of the hook's channels
\* is open: the channel that delivers is then one removeChannel was called on.
C35_TornDownChannelSilent ==
    [][ ( /\ OpenChannels = {}
          /\ last'.op \in {"Status", "StatusT", "Change"} )
        => /\ connected' = connected
           /\ data' = data
           /\ timers' = timers
           /\ retryTimeout' = retryTimeout ]_vars

\* C36: with limit L >= 1 and orderBy set, an INSERT keeps the new record in R
\* whatever its sort key: when R already holds L records, the record dropped is
\* the last record of the previous R, not the one that ranks last under orderBy.
C36_InsertKeepsNewRecord ==
    ( Applied("INSERT") /\ Request.limit >= 1 /\ Request.order # "none" )
      => LET prev == last.st.prev
             rec  == last.st.ev.rec
             L    == Request.limit
         IN  /\ \E i \in DOMAIN data : data[i] = rec
             /\ Len(prev) >= L
                  => /\ Len(data) = L
                     /\ SameRecords(data, << rec >> \o SubSeq(prev, 1, L - 1))

\* limit 2, descending: R = [a(2), b(1)], INSERT c(0): c ranks last and stays,
\* b is dropped
C36_Witness ==
    /\ Applied("INSERT")
    /\ Request = [limit |-> 2, order |-> "desc"]
    /\ last.st.prev = << [id |-> 1, key |-> Num(2)], [id |-> 2, key |-> Num(1)] >>
    /\ last.st.ev.rec = [id |-> 3, key |-> Num(0)]
    /\ data = << [id |-> 1, key |-> Num(2)], [id |-> 3, key |-> Num(0)] >>

\* C37: every activation eventually makes loading false: once setup() has
\* started, the snapshot read resolving with a result, resolving with an error or
\* throwing each leave loading = false, so, the read resolving, a read in flight
\* leads to loading = false.
C37_LoadingEventuallyFalse ==
    /\ [] ( last.op \in {"QueryOk", "QueryError"} => ~ loading )
    /\ ( InFlight # {} ~> ~ loading )

\* the read of the first activation failed and loading is false
C37_Witness ==
    /\ last.op = "QueryError"
    /\ Len(runs) = 1
    /\ runs[1].pc = "failed"
    /\ ~ loading

\* C38: loading is monotone over the life of a hook instance: it starts true and,
\* once false, never becomes true again, also while the read of a retry or of a
\* reactivation after a parameter change is in flight.
C38_LoadingMonotone ==
    /\ loading = TRUE
    /\ [][ ~ loading => ~ loading' ]_vars

\* the retry timer has fired after the first snapshot: the retry's read is in
\* flight and loading is false
C38_Witness ==
    /\ last.op = "TimerFire"
    /\ \E r \in InFlight : runs[r].retry
    /\ ~ loading

\* C39: getRecommendations never throws and always returns an object whose data
\* is an array (possibly empty), for every combination of Supabase success or
\* failure, fallback success or failure, and fallback response envelope shape.
C39_AlwaysAnArray ==
    last.op = "GetRecommendations" => ( data # Threw /\ IsArray(data.data) )

\* both requests have failed: the data returned is the empty array
C39_Witness ==
    /\ last.op = "GetRecommendations"
    /\ params.supabase.kind = "rejected"
    /\ params.fallback.kind = "rejected"
    /\ data.data = Arr(<< >>)
    /\ data.error # Undefined

=============================================================================
